---- MODULE Spec2Model ----
(***************************************************************************)
(* The bridge dispatcher of wireshark_bridge.c: the interface registry,   *)
(* the bounded capture queue, the sender thread, the datagram batching of *)
(* wireshark_bridge_send_packets and the enable/disable life cycle of the *)
(* transport (API handlers and CLI commands).                             *)
(*                                                                         *)
(* Processes: capture callers (wireshark_bridge_send_packet, one call at  *)
(* a time per forwarding worker), the sender thread, and one              *)
(* administrative context (VPP's main thread) that runs one API handler   *)
(* or CLI command at a time.  Every handler is cut into steps at the      *)
(* points where another thread can observe or change what it reads.       *)
(* A section of code that runs with sender_mutex held throughout is one   *)
(* step; it is enabled only when no other such section is running, which  *)
(* is always the case between steps, so the mutex needs no variable.      *)
(***************************************************************************)
EXTENDS Integers, Sequences, FiniteSets, TLC

\* ---------------------------------------------------------------- constants

\* Program constants (wireshark_bridge.c:62-70).
WIRESHARK_BRIDGE_DIRECTION_RX == 0
WIRESHARK_BRIDGE_DIRECTION_TX == 1
WIRESHARK_BRIDGE_PACKET_HEADER_SIZE == 17
WIRESHARK_BRIDGE_MAX_DATAGRAM_SIZE == 65507
\* sizeof(wbm->socket_path), wireshark_bridge.c:101.
SOCKET_PATH_SIZE == 108

\* The queue bound, 10000 in the source (wireshark_bridge.c:66), scaled down.
WIRESHARK_BRIDGE_MAX_QUEUE_SIZE == 2
\* Bound of the model: the number of capture calls that get past the
\* interface lookup, each of which is given the next record id.
MaxCaptures == 3
\* Bound of the model: the number of administrative calls.
MaxAdmin == 2

\* Forwarding workers that call wireshark_bridge_send_packet.
Producers == {"w1", "w2"}
\* sw_if_index values used by the callers.
IfIds == {5, 6}

\* Arguments of capture calls: sw_if_index, packet_length, direction.  64 is
\* an ordinary frame; two records of 40000 do not fit one datagram; 65491 + 17
\* alone exceeds WIRESHARK_BRIDGE_MAX_DATAGRAM_SIZE.
CaptureInputs ==
    { [sw_if_index |-> 5, packet_length |-> 64,    direction |-> WIRESHARK_BRIDGE_DIRECTION_RX],
      [sw_if_index |-> 5, packet_length |-> 40000, direction |-> WIRESHARK_BRIDGE_DIRECTION_TX],
      [sw_if_index |-> 6, packet_length |-> 40000, direction |-> WIRESHARK_BRIDGE_DIRECTION_RX],
      [sw_if_index |-> 6, packet_length |-> 65491, direction |-> WIRESHARK_BRIDGE_DIRECTION_TX] }

\* Endpoint strings handed to enable, described by what the handlers read of
\* them: is_path (bridge_address[0] == '/'), len (strlen), has_colon (strchr),
\* port (atoi of the text after the colon), ip_ok (inet_pton > 0).
EP_UNIX    == [name |-> "/tmp/ws.sock",    is_path |-> TRUE,  len |-> 12,
               has_colon |-> FALSE, port |-> 0,     ip_ok |-> FALSE]
EP_LONG    == [name |-> "/long-path",      is_path |-> TRUE,  len |-> 108,
               has_colon |-> FALSE, port |-> 0,     ip_ok |-> FALSE]
EP_INET    == [name |-> "127.0.0.1:9999",  is_path |-> FALSE, len |-> 14,
               has_colon |-> TRUE,  port |-> 9999,  ip_ok |-> TRUE]
EP_NOCOLON == [name |-> "127.0.0.1",       is_path |-> FALSE, len |-> 9,
               has_colon |-> FALSE, port |-> 0,     ip_ok |-> TRUE]
EP_BADPORT == [name |-> "127.0.0.1:70000", is_path |-> FALSE, len |-> 15,
               has_colon |-> TRUE,  port |-> 70000, ip_ok |-> TRUE]
EP_BADIP   == [name |-> "999.999.999.999:9999", is_path |-> FALSE, len |-> 20,
               has_colon |-> TRUE,  port |-> 9999,  ip_ok |-> FALSE]
Endpoints  == {EP_UNIX, EP_LONG, EP_INET, EP_NOCOLON, EP_BADPORT, EP_BADIP}

\* File descriptors socket() can return: the lowest one not open.
Fds == {3, 4}

\* ---------------------------------------------------------------- state

VARIABLES
    \* wireshark_bridge_main_t
    interfaces,                       \* vector of wireshark_bridge_interface_t
    interface_index_by_sw_if_index,   \* hash: sw_if_index -> index (1-based here)
    bridge_socket,
    bridge_addr,                      \* [family, ep]: which member of the union was filled
    bridge_connected,
    use_unix_socket,
    socket_path,
    sender_thread_running,
    \* wireshark_bridge_queue_t
    queue_packets,
    should_stop,
    queue_overflows,
    \* the operating system: the open descriptors, each with its family, and
    \* whether close() was ever called on a descriptor that was not open
    open_fds, bad_close,
    \* capture callers: position and the sw_if_index argument once read
    cap_pc, cap_sw,
    \* the sender thread: position and locals of sender_thread_fn / send_packets
    st_pc, st_packets, st_i, st_buffer, st_offset, st_ret,
    \* the administrative context: position and the call being run
    adm_pc, adm_call,
    \* history: the datagrams handed to sendto, ids given to records, calls made
    wire, next_id, n_admin,
    \* the environment explored: how many capture and administrative calls it
    \* makes and the endpoints it passes to enable; never changed
    env,
    \* the sender threads created by pthread_create and not yet joined
    sender_threads,
    \* history: the ids of the records appended while bridge_connected was 0
    appended_disconnected,
    \* the frame format on its own: a batch of records, the datagram bytes the
    \* encoder writes for it and what a reference decoder reads back
    codec

cfgvars  == <<interfaces, interface_index_by_sw_if_index>>
tvars    == <<bridge_socket, bridge_addr, bridge_connected, use_unix_socket, socket_path>>
qvars    == <<queue_packets, should_stop, queue_overflows>>
capvars  == <<cap_pc, cap_sw>>
stvars   == <<st_pc, st_packets, st_i, st_buffer, st_offset, st_ret>>
admvars  == <<adm_pc, adm_call>>
osvars   == <<open_fds, bad_close>>
vars == <<interfaces, interface_index_by_sw_if_index, bridge_socket, bridge_addr,
          bridge_connected, use_unix_socket, socket_path, sender_thread_running,
          queue_packets, should_stop, queue_overflows, open_fds, bad_close,
          cap_pc, cap_sw, st_pc, st_packets, st_i, st_buffer, st_offset, st_ret,
          adm_pc, adm_call, wire, next_id, n_admin, env, sender_threads,
          appended_disconnected, codec>>

NoAddr == [family |-> "none", ep |-> "none"]
NoCall == [op |-> "none", sw_if_index |-> 0, ep |-> EP_INET, rv |-> "none", prior |-> -1,
           reply |-> <<>>]

\* The frame format is not exercised: no batch, no bytes.
NoCodec == [pc |-> "off", records |-> <<>>, i |-> 0, buffer |-> <<>>, decoded |-> <<>>]

\* wireshark_bridge_init: the state after construction.
init_state ==
    /\ interfaces = <<>>
    /\ interface_index_by_sw_if_index = <<>>
    /\ bridge_socket = -1
    /\ bridge_addr = NoAddr
    /\ bridge_connected = 0
    /\ use_unix_socket = 0
    /\ socket_path = ""
    /\ sender_thread_running = 0
    /\ queue_packets = <<>>
    /\ should_stop = 0
    /\ queue_overflows = 0
    /\ open_fds = {}
    /\ bad_close = FALSE
    /\ cap_pc = [p \in Producers |-> "idle"]
    /\ cap_sw = [p \in Producers |-> 0]
    /\ st_pc = "none"
    /\ st_packets = <<>>
    /\ st_i = 0
    /\ st_buffer = <<>>
    /\ st_offset = 0
    /\ st_ret = "none"
    /\ adm_pc = "idle"
    /\ adm_call = NoCall
    /\ wire = <<>>
    /\ next_id = 1
    /\ n_admin = 0
    /\ sender_threads = 0
    /\ appended_disconnected = {}

Init ==
    /\ init_state
    /\ codec = NoCodec
    /\ env = [captures |-> MaxCaptures, admin |-> MaxAdmin, endpoints |-> Endpoints]

\* ---------------------------------------------------------------- registry

\* wireshark_bridge_find_interface: the index of the entry, 0 for NULL.
find_interface(sw_if_index) ==
    IF sw_if_index \notin DOMAIN interface_index_by_sw_if_index
    THEN 0
    ELSE IF interface_index_by_sw_if_index[sw_if_index] > Len(interfaces)
         THEN 0
         ELSE interface_index_by_sw_if_index[sw_if_index]

new_wbi(sw_if_index) ==
    [sw_if_index |-> sw_if_index, is_enabled |-> 0,
     packets_sent_rx |-> 0, bytes_sent_rx |-> 0,
     packets_sent_tx |-> 0, bytes_sent_tx |-> 0]

\* A mutation of add_interface_vec: an entry is added without the lookup.
add_interface_vec_always(sw_if_index) == Append(interfaces, new_wbi(sw_if_index))

\* The vector after wireshark_bridge_add_interface.
add_interface_vec(sw_if_index) ==
    IF find_interface(sw_if_index) # 0 THEN interfaces
    ELSE Append(interfaces, new_wbi(sw_if_index))

\* The hash after wireshark_bridge_add_interface.
add_interface_hash(sw_if_index) ==
    IF find_interface(sw_if_index) # 0 THEN interface_index_by_sw_if_index
    ELSE [s \in DOMAIN interface_index_by_sw_if_index \cup {sw_if_index} |->
            IF s = sw_if_index THEN Len(interfaces) + 1
            ELSE interface_index_by_sw_if_index[s]]

\* ---------------------------------------------------------------- capture

InFlight == Cardinality({p \in Producers : cap_pc[p] # "idle"})

\* A forwarding node calls wireshark_bridge_send_packet.
CaptureCall(p) ==
    /\ cap_pc[p] = "idle"
    /\ next_id + InFlight <= env.captures
    /\ cap_pc' = [cap_pc EXCEPT ![p] = "conn"]
    /\ UNCHANGED <<cfgvars, tvars, sender_thread_running, qvars, osvars, cap_sw,
                   stvars, admvars, wire, next_id, n_admin, env, codec, appended_disconnected, sender_threads>>

\* A mutation of not_connected_return: the dropped call is counted.
not_connected_counted ==
    /\ queue_overflows' = queue_overflows + 1
    /\ UNCHANGED <<queue_packets, should_stop>>

\* What the early return on !wbm->bridge_connected does to the queue: nothing.
not_connected_return == UNCHANGED qvars

\* "Quick check if bridge is connected before locking": an unlocked read.
CaptureCheckConnected(p) ==
    /\ cap_pc[p] = "conn"
    /\ IF bridge_connected = 0
       THEN /\ cap_pc' = [cap_pc EXCEPT ![p] = "idle"]
            /\ not_connected_return
       ELSE /\ cap_pc' = [cap_pc EXCEPT ![p] = "find"]
            /\ UNCHANGED qvars
    /\ UNCHANGED <<cfgvars, tvars, sender_thread_running, osvars, cap_sw,
                   stvars, admvars, wire, next_id, n_admin, env, codec, appended_disconnected, sender_threads>>

\* A mutation of not_captured: only the registry lookup is tested.
not_captured_enabled_unchecked(wbi) == wbi = 0

\* "if (!wbi || !wbi->is_enabled) return;"
not_captured(wbi) == wbi = 0 \/ interfaces[wbi].is_enabled = 0

\* The hash lookup and the is_enabled test, both unlocked.
CaptureFind(p) ==
    /\ cap_pc[p] = "find"
    /\ \E sw \in IfIds :
         LET wbi == find_interface(sw) IN
         IF not_captured(wbi)
         THEN /\ cap_pc' = [cap_pc EXCEPT ![p] = "idle"]
              /\ cap_sw' = cap_sw
         ELSE /\ cap_pc' = [cap_pc EXCEPT ![p] = "lock"]
              /\ cap_sw' = [cap_sw EXCEPT ![p] = sw]
    /\ UNCHANGED <<cfgvars, tvars, sender_thread_running, qvars, osvars,
                   stvars, admvars, wire, next_id, n_admin, env, codec, appended_disconnected, sender_threads>>

\* A mutation of queue_full: the test is off by one.
queue_full_off_by_one == Len(queue_packets) > WIRESHARK_BRIDGE_MAX_QUEUE_SIZE

\* The queue-full test of the critical section.
queue_full == Len(queue_packets) >= WIRESHARK_BRIDGE_MAX_QUEUE_SIZE

\* A mutation of reject: the record is dropped without being counted.
reject_uncounted == UNCHANGED <<queue_packets, queue_overflows>>

\* "Queue full - increment overflow counter and drop packet".
reject ==
    /\ queue_overflows' = queue_overflows + 1
    /\ UNCHANGED queue_packets

\* A mutation of queue_add: the record is put at the head of the vector.
queue_add_front(packet) == <<packet>> \o queue_packets

\* The queue after vec_add1 of a record.
queue_add(packet) == Append(queue_packets, packet)

\* The critical section: the size check, then the copy and vec_add1.
CaptureEnqueue(p) ==
    /\ cap_pc[p] = "lock"
    /\ cap_pc' = [cap_pc EXCEPT ![p] = "idle"]
    /\ cap_sw' = [cap_sw EXCEPT ![p] = 0]
    /\ IF queue_full
       THEN reject
       ELSE /\ \E a \in {c \in CaptureInputs : c.sw_if_index = cap_sw[p]} :
                 queue_packets' = queue_add([sw_if_index |-> a.sw_if_index,
                                             packet_length |-> a.packet_length,
                                             direction |-> a.direction,
                                             id |-> next_id])
            /\ UNCHANGED queue_overflows
    /\ appended_disconnected' =
         IF ~queue_full /\ bridge_connected = 0
         THEN appended_disconnected \cup {next_id}
         ELSE appended_disconnected
    /\ next_id' = next_id + 1
    /\ UNCHANGED <<cfgvars, tvars, sender_thread_running, should_stop, osvars,
                   stvars, admvars, wire, n_admin, env, codec, sender_threads>>

\* ---------------------------------------------------------------- sockets

IsOpen(fd) == \E o \in open_fds : o.fd = fd

closed(fd) == {o \in open_fds : o.fd # fd}

\* ---------------------------------------------------------------- sender

\* A mutation of drained: the drain takes the first record only.
drained_first == IF queue_packets = <<>> THEN <<>> ELSE <<Head(queue_packets)>>

\* The batch the drain takes from the queue.
drained == queue_packets

\* A mutation of stop_requested: the thread never sees the flag.
stop_requested_ignored == FALSE

\* queue->should_stop as the sender thread reads it.
stop_requested == should_stop # 0

\* The head of the thread's loop: the test of should_stop, then the locked
\* section with pthread_cond_timedwait until the queue is non-empty or
\* should_stop is set (the wait releases the mutex and returns after a signal
\* or after one second, so the section completes exactly when its condition
\* holds), then either the exit on should_stop or the drain.
SenderWaitDrain ==
    /\ st_pc = "wait"
    /\ Len(queue_packets) # 0 \/ stop_requested
    /\ IF stop_requested
       THEN /\ st_pc' = "exited"
            /\ UNCHANGED <<queue_packets, st_packets>>
       ELSE /\ st_packets' = drained
            /\ queue_packets' = <<>>
            /\ st_pc' = "check"
    /\ UNCHANGED <<cfgvars, tvars, sender_thread_running, should_stop, queue_overflows,
                   osvars, capvars, st_i, st_buffer, st_offset, st_ret, admvars,
                   wire, next_id, n_admin, env, codec, appended_disconnected, sender_threads>>

\* "Free packet data": the batch and the buffer are released and the loop
\* starts over.
freed ==
    /\ st_packets' = <<>>
    /\ st_i' = 0
    /\ st_buffer' = <<>>
    /\ st_offset' = 0
    /\ st_ret' = "none"
    /\ st_pc' = "wait"

\* if (n_packets > 0 && wbm->bridge_connected) wireshark_bridge_send_packets (...)
SenderCheck ==
    /\ st_pc = "check"
    /\ IF Len(st_packets) > 0 /\ bridge_connected # 0
       THEN /\ st_pc' = "rec"
            /\ st_i' = 1
            /\ st_buffer' = <<>>
            /\ st_offset' = 0
            /\ UNCHANGED <<st_packets, st_ret>>
       ELSE freed
    /\ UNCHANGED <<cfgvars, tvars, sender_thread_running, qvars, osvars, capvars,
                   admvars, wire, next_id, n_admin, env, codec, appended_disconnected, sender_threads>>

\* "Check if this packet would exceed maximum datagram size".
exceeds(offset, p) ==
    offset + WIRESHARK_BRIDGE_PACKET_HEADER_SIZE + p.packet_length
        > WIRESHARK_BRIDGE_MAX_DATAGRAM_SIZE

\* "Update statistics": the entry's counters after record p was written.
count_sent(wbi, p) ==
    IF p.direction = WIRESHARK_BRIDGE_DIRECTION_RX
    THEN [wbi EXCEPT !.packets_sent_rx = @ + 1, !.bytes_sent_rx = @ + p.packet_length]
    ELSE [wbi EXCEPT !.packets_sent_tx = @ + 1, !.bytes_sent_tx = @ + p.packet_length]

\* The for loop moves to the next record, or leaves for "Send any remaining
\* data" after the last one.
advance ==
    /\ st_i' = st_i + 1
    /\ IF st_i + 1 > Len(st_packets)
       THEN st_pc' = "flush" /\ st_ret' = "free"
       ELSE st_pc' = "rec" /\ st_ret' = "none"

\* The 17-byte header and the payload of record p are written at buffer_offset
\* and the counters of its interface are updated.
append_record(p) ==
    /\ st_buffer' = Append(st_buffer, p)
    /\ st_offset' = st_offset + WIRESHARK_BRIDGE_PACKET_HEADER_SIZE + p.packet_length
    /\ interfaces' = [interfaces EXCEPT ![find_interface(p.sw_if_index)] = count_sent(@, p)]

\* A mutation of skipped: only the registry lookup is tested.
skipped_enabled_unchecked(wbi) == wbi = 0

\* "if (!wbi || !wbi->is_enabled) continue;"
skipped(wbi) == wbi = 0 \/ interfaces[wbi].is_enabled = 0

\* One iteration of the loop over the batch up to the first system call: the
\* interface lookup and the is_enabled test (a record that fails it is
\* skipped), the size check, and the write of the record when the buffer
\* need not be sent first.
SenderRecord ==
    /\ st_pc = "rec"
    /\ LET p   == st_packets[st_i]
           wbi == find_interface(p.sw_if_index)
       IN  IF skipped(wbi)
           THEN /\ advance
                /\ UNCHANGED <<interfaces, st_buffer, st_offset>>
           ELSE IF exceeds(st_offset, p)
           THEN /\ st_pc' = "flush"
                /\ st_ret' = "append"
                /\ UNCHANGED <<interfaces, st_i, st_buffer, st_offset>>
           ELSE /\ append_record(p)
                /\ advance
    /\ UNCHANGED <<interface_index_by_sw_if_index, tvars, sender_thread_running, qvars,
                   osvars, capvars, st_packets, admvars, wire, next_id, n_admin, env, codec, appended_disconnected, sender_threads>>

\* The datagram a sendto call hands to the socket layer.
datagram(ok) ==
    [frames |-> st_buffer, length |-> st_offset, ok |-> ok, fd |-> bridge_socket,
     to |-> IF use_unix_socket # 0 THEN "unix" ELSE "inet", addr |-> bridge_addr]

\* The results sendto can have: it fails on a descriptor that is not open and
\* on a UDP datagram above the protocol's limit, and can fail otherwise too.
sendto_results ==
    IF ~IsOpen(bridge_socket) THEN {FALSE}
    ELSE IF use_unix_socket = 0 /\ st_offset > WIRESHARK_BRIDGE_MAX_DATAGRAM_SIZE
    THEN {FALSE}
    ELSE {TRUE, FALSE}

\* After the buffer was sent or given up: "Reset buffer" and on to the write
\* of the pending record, or the end of wireshark_bridge_send_packets.
after_flush ==
    IF st_ret = "free" THEN freed
    ELSE /\ st_pc' = "append"
         /\ st_offset' = 0
         /\ st_buffer' = <<>>
         /\ UNCHANGED <<st_packets, st_i, st_ret>>

\* A mutation of may_send: bridge_connected is not tested.
may_send_disconnected == st_offset > 0

\* if (buffer_offset > 0 && wbm->bridge_connected)
may_send == st_offset > 0 /\ bridge_connected # 0

\* "Send current buffer" / "Send any remaining data": the test of
\* buffer_offset and bridge_connected, the sendto call and, when it fails,
\* the close of the socket.  bridge_connected is cleared by the next step.
SenderFlush ==
    /\ st_pc = "flush"
    /\ IF may_send
       THEN \E ok \in sendto_results :
              /\ wire' = Append(wire, datagram(ok))
              /\ IF ok
                 THEN /\ after_flush
                      /\ UNCHANGED osvars
                 ELSE /\ st_pc' = "disc"
                      /\ open_fds' = closed(bridge_socket)
                      /\ bad_close' = (bad_close \/ ~IsOpen(bridge_socket))
                      /\ UNCHANGED <<st_packets, st_i, st_buffer, st_offset, st_ret>>
       ELSE /\ after_flush
            /\ UNCHANGED <<wire, osvars>>
    /\ UNCHANGED <<cfgvars, tvars, sender_thread_running, qvars, capvars,
                   admvars, next_id, n_admin, env, codec, appended_disconnected, sender_threads>>

\* wbm->bridge_connected = 0 after the close of a failed send.
SenderDisconnect ==
    /\ st_pc = "disc"
    /\ bridge_connected' = 0
    /\ after_flush
    /\ UNCHANGED <<cfgvars, bridge_socket, bridge_addr, use_unix_socket, socket_path,
                   sender_thread_running, qvars, osvars, capvars,
                   admvars, wire, next_id, n_admin, env, codec, appended_disconnected, sender_threads>>

\* The write of the record that did not fit the buffer just sent.
SenderAppend ==
    /\ st_pc = "append"
    /\ append_record(st_packets[st_i])
    /\ advance
    /\ UNCHANGED <<interface_index_by_sw_if_index, tvars, sender_thread_running, qvars,
                   osvars, capvars, st_packets, admvars, wire, next_id, n_admin, env, codec, appended_disconnected, sender_threads>>

\* ---------------------------------------------------------------- enable

\* The linear scan of both disable entry points: the index of the first entry
\* with this sw_if_index, 0 when there is none.
scan_interface(sw) ==
    IF \E i \in 1..Len(interfaces) : interfaces[i].sw_if_index = sw
    THEN CHOOSE i \in 1..Len(interfaces) :
            /\ interfaces[i].sw_if_index = sw
            /\ \A j \in 1..(i - 1) : interfaces[j].sw_if_index # sw
    ELSE 0

\* The enabled flag of the interface's entry, -1 when it is not registered.
enabled_flag(sw) ==
    IF scan_interface(sw) = 0 THEN -1 ELSE interfaces[scan_interface(sw)].is_enabled

\* An administrative call being run: its arguments, its return value and the
\* enabled flag of its interface when it was made.
Call(op, sw, ep) ==
    [op |-> op, sw_if_index |-> sw, ep |-> ep, rv |-> "pending",
     prior |-> enabled_flag(sw), reply |-> <<>>]

\* A mutation of config_error: the port is not range-checked.
config_error_port_unchecked(ep) ==
    IF ep.is_path THEN ep.len >= SOCKET_PATH_SIZE
    ELSE ~ep.has_colon

\* The configuration errors both enable entry points test for.
config_error(ep) ==
    IF ep.is_path THEN ep.len >= SOCKET_PATH_SIZE
    ELSE ~ep.has_colon \/ ep.port <= 0 \/ ep.port > 65535

\* "Close any existing socket": the descriptor table after it.
close_existing == IF bridge_socket > 0 THEN closed(bridge_socket) ELSE open_fds
close_existing_bad == bad_close \/ (bridge_socket > 0 /\ ~IsOpen(bridge_socket))

\* socket() either fails (-1) or returns the lowest free descriptor.
socket_results(table) ==
    {-1} \cup {fd \in Fds : (\A o \in table : o.fd # fd)
                             /\ \A g \in Fds : g < fd => \E o \in table : o.fd = g}

\* "Initialize packet queue" before pthread_create: the queue vector is
\* dropped, should_stop and queue_overflows are cleared.
reset_queue ==
    /\ queue_packets' = <<>>
    /\ should_stop' = 0
    /\ queue_overflows' = 0

\* vl_api_wireshark_bridge_enable_t_handler up to and including
\* bridge_connected = 1: the endpoint is parsed and, only when the transport
\* is not connected, the old socket closed and a new one opened.
ApiEnableBegin ==
    /\ adm_pc = "idle"
    /\ n_admin < env.admin
    /\ n_admin' = n_admin + 1
    /\ \E sw \in IfIds, ep \in env.endpoints :
         /\ use_unix_socket' = IF ep.is_path THEN 1 ELSE 0
         /\ IF config_error(ep)
            THEN /\ adm_call' = [Call("api_enable", sw, ep) EXCEPT !.rv = "invalid_value"]
                 /\ adm_pc' = "ret"
                 /\ UNCHANGED <<bridge_socket, bridge_addr, bridge_connected, socket_path,
                                osvars>>
            ELSE /\ socket_path' = IF ep.is_path THEN ep.name ELSE socket_path
                 /\ IF bridge_connected # 0
                    THEN /\ adm_call' = Call("api_enable", sw, ep)
                         /\ adm_pc' = "ae_reg"
                         /\ UNCHANGED <<bridge_socket, bridge_addr, bridge_connected, osvars>>
                    ELSE \E fd \in socket_results(close_existing) :
                         /\ bad_close' = close_existing_bad
                         /\ bridge_socket' = fd
                         /\ IF fd < 0
                            THEN /\ open_fds' = close_existing
                                 /\ adm_call' = [Call("api_enable", sw, ep)
                                                   EXCEPT !.rv = "syscall_error_1"]
                                 /\ adm_pc' = "ret"
                                 /\ UNCHANGED <<bridge_addr, bridge_connected>>
                            ELSE /\ open_fds' = close_existing \cup
                                       {[fd |-> fd,
                                         family |-> IF ep.is_path THEN "unix" ELSE "inet"]}
                                 /\ bridge_connected' = 1
                                 /\ bridge_addr' = IF ep.is_path
                                                   THEN [family |-> "unix", ep |-> ep.name]
                                                   ELSE bridge_addr
                                 /\ adm_call' = Call("api_enable", sw, ep)
                                 /\ adm_pc' = IF ep.is_path THEN "ae_thread" ELSE "ae_addr"
    /\ UNCHANGED <<cfgvars, sender_thread_running, qvars, capvars, stvars, wire, next_id, env, codec, appended_disconnected, sender_threads>>

\* A mutation of sender_not_running: the flag is not tested.
sender_not_running_unchecked == TRUE

\* if (!wbm->sender_thread_running)
sender_not_running == sender_thread_running = 0

\* The Unix branch of the API handler: "Start sender thread if not already
\* running".  The queue is reset without the mutex.  The IP branch of the
\* handler has no such block.
ApiEnableThread ==
    /\ adm_pc = "ae_thread"
    /\ IF ~sender_not_running
       THEN /\ adm_pc' = "ae_reg"
            /\ UNCHANGED <<tvars, sender_thread_running, qvars, osvars, stvars, adm_call,
                           sender_threads>>
       ELSE /\ reset_queue
            /\ \E created \in BOOLEAN :
                 IF created
                 THEN /\ st_pc' = "wait"
                      /\ sender_threads' = sender_threads + 1
                      /\ sender_thread_running' = 1
                      /\ adm_pc' = "ae_reg"
                      /\ UNCHANGED <<tvars, osvars, adm_call, st_packets, st_i, st_buffer,
                                     st_offset, st_ret>>
                 ELSE /\ open_fds' = closed(bridge_socket)
                      /\ bad_close' = (bad_close \/ ~IsOpen(bridge_socket))
                      /\ bridge_connected' = 0
                      /\ adm_call' = [adm_call EXCEPT !.rv = "syscall_error_3"]
                      /\ adm_pc' = "ret"
                      /\ UNCHANGED <<bridge_socket, bridge_addr, use_unix_socket, socket_path,
                                     sender_thread_running, stvars, sender_threads>>
    /\ UNCHANGED <<cfgvars, capvars, wire, next_id, n_admin, env, codec, appended_disconnected>>

\* The IP branch after bridge_connected = 1: the address is filled in; when
\* inet_pton fails the socket is closed and bridge_connected is left set.
ApiEnableAddr ==
    /\ adm_pc = "ae_addr"
    /\ IF adm_call.ep.ip_ok
       THEN /\ bridge_addr' = [family |-> "inet", ep |-> adm_call.ep.name]
            /\ adm_pc' = "ae_reg"
            /\ UNCHANGED <<osvars, adm_call>>
       ELSE /\ bridge_addr' = [family |-> "inet", ep |-> "unset"]
            /\ open_fds' = closed(bridge_socket)
            /\ bad_close' = (bad_close \/ ~IsOpen(bridge_socket))
            /\ adm_call' = [adm_call EXCEPT !.rv = "invalid_value"]
            /\ adm_pc' = "ret"
    /\ UNCHANGED <<cfgvars, bridge_socket, bridge_connected, use_unix_socket, socket_path,
                   sender_thread_running, qvars, capvars, stvars, wire, next_id, n_admin, env, codec, appended_disconnected, sender_threads>>

\* A mutation of enable_interface: the entry is written afresh, counters too.
enable_interface_reset(sw) ==
    /\ interface_index_by_sw_if_index' = add_interface_hash(sw)
    /\ interfaces' =
         LET vec == add_interface_vec(sw)
             idx == IF find_interface(sw) # 0 THEN find_interface(sw) ELSE Len(vec)
         IN  [vec EXCEPT ![idx] = [new_wbi(sw) EXCEPT !.is_enabled = 1]]

\* "Enable packet capture on the interface": find or add the entry and set
\* is_enabled.  Shared by the API handler and the CLI command.
enable_interface(sw) ==
    /\ interface_index_by_sw_if_index' = add_interface_hash(sw)
    /\ interfaces' =
         LET vec == add_interface_vec(sw)
             idx == IF find_interface(sw) # 0 THEN find_interface(sw) ELSE Len(vec)
         IN  [vec EXCEPT ![idx].is_enabled = 1]

ApiEnableRegister ==
    /\ adm_pc = "ae_reg"
    /\ enable_interface(adm_call.sw_if_index)
    /\ adm_call' = [adm_call EXCEPT !.rv = "ok"]
    /\ adm_pc' = "ret"
    /\ UNCHANGED <<tvars, sender_thread_running, qvars, osvars, capvars, stvars,
                   wire, next_id, n_admin, env, codec, appended_disconnected, sender_threads>>

\* wireshark_bridge_enable_command_fn up to the close of the existing socket:
\* the CLI command reconnects whether or not the transport is connected.
CliEnableBegin ==
    /\ adm_pc = "idle"
    /\ n_admin < env.admin
    /\ n_admin' = n_admin + 1
    /\ \E sw \in IfIds, ep \in env.endpoints :
         /\ use_unix_socket' = IF ep.is_path THEN 1 ELSE 0
         /\ IF config_error(ep)
            THEN /\ adm_call' = [Call("cli_enable", sw, ep) EXCEPT !.rv = "invalid_value"]
                 /\ adm_pc' = "ret"
                 /\ UNCHANGED <<socket_path, osvars>>
            ELSE /\ socket_path' = IF ep.is_path THEN ep.name ELSE socket_path
                 /\ open_fds' = close_existing
                 /\ bad_close' = close_existing_bad
                 /\ adm_call' = Call("cli_enable", sw, ep)
                 /\ adm_pc' = "ce_sock"
    /\ UNCHANGED <<cfgvars, bridge_socket, bridge_addr, bridge_connected,
                   sender_thread_running, qvars, capvars, stvars, wire, next_id, env, codec, appended_disconnected, sender_threads>>

\* socket() and, for a Unix path, the address and bridge_connected = 1; for an
\* IP endpoint bridge_connected = 1 precedes the address.
CliEnableSocket ==
    /\ adm_pc = "ce_sock"
    /\ \E fd \in socket_results(open_fds) :
         /\ bridge_socket' = fd
         /\ IF fd < 0
            THEN /\ adm_call' = [adm_call EXCEPT !.rv = "syscall_error_1"]
                 /\ adm_pc' = "ret"
                 /\ UNCHANGED <<open_fds, bridge_addr, bridge_connected>>
            ELSE /\ open_fds' = open_fds \cup
                       {[fd |-> fd,
                         family |-> IF adm_call.ep.is_path THEN "unix" ELSE "inet"]}
                 /\ bridge_connected' = 1
                 /\ bridge_addr' = IF adm_call.ep.is_path
                                   THEN [family |-> "unix", ep |-> adm_call.ep.name]
                                   ELSE bridge_addr
                 /\ adm_pc' = IF adm_call.ep.is_path THEN "ce_thread" ELSE "ce_addr"
                 /\ UNCHANGED adm_call
    /\ UNCHANGED <<cfgvars, use_unix_socket, socket_path, sender_thread_running, qvars,
                   bad_close, capvars, stvars, wire, next_id, n_admin, env, codec, appended_disconnected, sender_threads>>

\* The IP branch of the CLI command after bridge_connected = 1; a failing
\* inet_pton closes the socket and clears bridge_connected.
CliEnableAddr ==
    /\ adm_pc = "ce_addr"
    /\ IF adm_call.ep.ip_ok
       THEN /\ bridge_addr' = [family |-> "inet", ep |-> adm_call.ep.name]
            /\ adm_pc' = "ce_thread"
            /\ UNCHANGED <<osvars, adm_call, bridge_connected>>
       ELSE /\ bridge_addr' = [family |-> "inet", ep |-> "unset"]
            /\ open_fds' = closed(bridge_socket)
            /\ bad_close' = (bad_close \/ ~IsOpen(bridge_socket))
            /\ bridge_connected' = 0
            /\ adm_call' = [adm_call EXCEPT !.rv = "invalid_value"]
            /\ adm_pc' = "ret"
    /\ UNCHANGED <<cfgvars, bridge_socket, use_unix_socket, socket_path,
                   sender_thread_running, qvars, capvars, stvars, wire, next_id, n_admin, env, codec, appended_disconnected, sender_threads>>

\* "Start sender thread if not already running" of the CLI command (the block
\* in the Unix branch and the common block after both branches): the queue
\* is reset with the mutex held, then pthread_create.
CliEnableThread ==
    /\ adm_pc = "ce_thread"
    /\ IF ~sender_not_running
       THEN /\ adm_pc' = "ce_reg"
            /\ UNCHANGED <<tvars, sender_thread_running, qvars, osvars, stvars, adm_call,
                           sender_threads>>
       ELSE /\ reset_queue
            /\ \E created \in BOOLEAN :
                 IF created
                 THEN /\ st_pc' = "wait"
                      /\ sender_threads' = sender_threads + 1
                      /\ sender_thread_running' = 1
                      /\ adm_pc' = "ce_reg"
                      /\ UNCHANGED <<tvars, osvars, adm_call, st_packets, st_i, st_buffer,
                                     st_offset, st_ret>>
                 ELSE /\ open_fds' = closed(bridge_socket)
                      /\ bad_close' = (bad_close \/ ~IsOpen(bridge_socket))
                      /\ bridge_connected' = 0
                      /\ adm_call' = [adm_call EXCEPT !.rv = "syscall_error_3"]
                      /\ adm_pc' = "ret"
                      /\ UNCHANGED <<bridge_socket, bridge_addr, use_unix_socket, socket_path,
                                     sender_thread_running, stvars, sender_threads>>
    /\ UNCHANGED <<cfgvars, capvars, wire, next_id, n_admin, env, codec, appended_disconnected>>

CliEnableRegister ==
    /\ adm_pc = "ce_reg"
    /\ enable_interface(adm_call.sw_if_index)
    /\ adm_call' = [adm_call EXCEPT !.rv = "ok"]
    /\ adm_pc' = "ret"
    /\ UNCHANGED <<tvars, sender_thread_running, qvars, osvars, capvars, stvars,
                   wire, next_id, n_admin, env, codec, appended_disconnected, sender_threads>>

\* ---------------------------------------------------------------- disable

\* A mutation of disabled_vec: the entry found is cleared, counters included.
disabled_vec_reset(sw) ==
    IF scan_interface(sw) = 0 THEN interfaces
    ELSE [interfaces EXCEPT ![scan_interface(sw)] = new_wbi(sw)]

\* The vector after is_enabled = 0 on the entry found.
disabled_vec(sw) ==
    IF scan_interface(sw) = 0 THEN interfaces
    ELSE [interfaces EXCEPT ![scan_interface(sw)].is_enabled = 0]

\* "Check if all interfaces are disabled".
all_disabled(vec) == \A i \in 1..Len(vec) : vec[i].is_enabled = 0

\* A mutation of joined: the caller does not wait for the thread.
joined_at_once == TRUE

\* pthread_join (wbm->sender_thread, NULL) returns: the thread has exited.
joined == st_pc = "exited"

\* A mutation of torn_down: the transport is marked connected.
torn_down_connected == bridge_connected' = 1

\* wbm->bridge_connected = 0 at the end of a teardown.
torn_down == bridge_connected' = 0

\* vl_api_wireshark_bridge_disable_t_handler up to pthread_join: the entry is
\* disabled; when every entry is disabled and the transport is connected,
\* should_stop is set (without the mutex and without a signal) if the sender
\* thread runs, else the socket is closed at once.
ApiDisableBegin ==
    /\ adm_pc = "idle"
    /\ n_admin < env.admin
    /\ n_admin' = n_admin + 1
    /\ \E sw \in IfIds :
         /\ interfaces' = disabled_vec(sw)
         /\ IF all_disabled(disabled_vec(sw)) /\ bridge_connected # 0
            THEN IF sender_thread_running # 0
                 THEN /\ should_stop' = 1
                      /\ adm_call' = Call("api_disable", sw, EP_INET)
                      /\ adm_pc' = "ad_join"
                      /\ UNCHANGED <<bridge_connected, osvars>>
                 ELSE /\ open_fds' = closed(bridge_socket)
                      /\ bad_close' = (bad_close \/ ~IsOpen(bridge_socket))
                      /\ torn_down
                      /\ adm_call' = [Call("api_disable", sw, EP_INET) EXCEPT !.rv = "ok"]
                      /\ adm_pc' = "ret"
                      /\ UNCHANGED should_stop
            ELSE /\ adm_call' = [Call("api_disable", sw, EP_INET) EXCEPT !.rv = "ok"]
                 /\ adm_pc' = "ret"
                 /\ UNCHANGED <<should_stop, bridge_connected, osvars>>
    /\ UNCHANGED <<interface_index_by_sw_if_index, bridge_socket, bridge_addr,
                   use_unix_socket, socket_path, sender_thread_running, queue_packets,
                   queue_overflows, capvars, stvars, wire, next_id, env, codec, appended_disconnected, sender_threads>>

\* pthread_join returns once the sender thread has exited; then
\* sender_thread_running = 0, close (bridge_socket), bridge_connected = 0.
ApiDisableJoin ==
    /\ adm_pc = "ad_join"
    /\ joined
    /\ st_pc' = "none"
    /\ sender_threads' = sender_threads - 1
    /\ sender_thread_running' = 0
    /\ open_fds' = closed(bridge_socket)
    /\ bad_close' = (bad_close \/ ~IsOpen(bridge_socket))
    /\ torn_down
    /\ adm_call' = [adm_call EXCEPT !.rv = "ok"]
    /\ adm_pc' = "ret"
    /\ UNCHANGED <<cfgvars, bridge_socket, bridge_addr, use_unix_socket, socket_path,
                   qvars, capvars, st_packets, st_i, st_buffer, st_offset, st_ret,
                   wire, next_id, n_admin, env, codec, appended_disconnected>>

\* wireshark_bridge_disable_command_fn: the entry is disabled under the mutex;
\* nothing else is touched.
CliDisable ==
    /\ adm_pc = "idle"
    /\ n_admin < env.admin
    /\ n_admin' = n_admin + 1
    /\ \E sw \in IfIds :
         /\ interfaces' = disabled_vec(sw)
         /\ adm_call' = [Call("cli_disable", sw, EP_INET) EXCEPT
                            !.rv = IF scan_interface(sw) = 0 THEN "not_found" ELSE "ok"]
    /\ adm_pc' = "ret"
    /\ UNCHANGED <<interface_index_by_sw_if_index, tvars, sender_thread_running, qvars,
                   osvars, capvars, stvars, wire, next_id, env, codec, appended_disconnected, sender_threads>>

\* ---------------------------------------------------------------- shutdown

\* wireshark_bridge_exit after the thread is stopped: "Close socket" when
\* bridge_socket > 0, then "Free resources": vec_free and hash_free leave both
\* the vector and the hash empty.
exit_teardown ==
    /\ IF bridge_socket > 0
       THEN /\ open_fds' = closed(bridge_socket)
            /\ bad_close' = (bad_close \/ ~IsOpen(bridge_socket))
            /\ bridge_socket' = -1
            /\ torn_down
       ELSE UNCHANGED <<open_fds, bad_close, bridge_socket, bridge_connected>>
    /\ interfaces' = <<>>
    /\ interface_index_by_sw_if_index' = <<>>
    /\ adm_pc' = "down"

\* wireshark_bridge_exit up to pthread_join: when the sender thread runs,
\* should_stop is set and the condition signalled with the mutex held; else
\* the teardown follows at once.
ExitBegin ==
    /\ adm_pc = "idle"
    /\ n_admin < env.admin
    /\ n_admin' = n_admin + 1
    /\ adm_call' = Call("exit", 0, EP_INET)
    /\ IF sender_thread_running # 0
       THEN /\ should_stop' = 1
            /\ adm_pc' = "ex_join"
            /\ UNCHANGED <<cfgvars, bridge_socket, bridge_connected, osvars>>
       ELSE /\ exit_teardown
            /\ UNCHANGED should_stop
    /\ UNCHANGED <<bridge_addr, use_unix_socket, socket_path, sender_thread_running,
                   queue_packets, queue_overflows, capvars, stvars, wire, next_id, env, codec, appended_disconnected,
                   sender_threads>>

\* pthread_join returns, sender_thread_running = 0, then the teardown.
ExitJoin ==
    /\ adm_pc = "ex_join"
    /\ joined
    /\ st_pc' = "none"
    /\ sender_threads' = sender_threads - 1
    /\ sender_thread_running' = 0
    /\ exit_teardown
    /\ UNCHANGED <<bridge_addr, use_unix_socket, socket_path, qvars, capvars,
                   st_packets, st_i, st_buffer, st_offset, st_ret, adm_call,
                   wire, next_id, n_admin, env, codec, appended_disconnected>>

\* ---------------------------------------------------------------- statistics

\* The value ~0 of sw_if_index: all interfaces.
ALL_INTERFACES == -1

\* One vl_api_interface_stats_t of the reply.
stats_of(wbi) ==
    [sw_if_index |-> wbi.sw_if_index,
     packets_sent_rx |-> wbi.packets_sent_rx, bytes_sent_rx |-> wbi.bytes_sent_rx,
     packets_sent_tx |-> wbi.packets_sent_tx, bytes_sent_tx |-> wbi.bytes_sent_tx]

\* The stats array of the reply: the first entry with this sw_if_index, or
\* every entry for ~0.
stats_reply(sw) ==
    IF sw = ALL_INTERFACES THEN [i \in 1..Len(interfaces) |-> stats_of(interfaces[i])]
    ELSE IF scan_interface(sw) = 0 THEN <<>>
    ELSE <<stats_of(interfaces[scan_interface(sw)])>>

\* "Count interfaces": 1 or 0 for one interface, vec_len for ~0.
stats_count(sw) ==
    IF sw = ALL_INTERFACES THEN Len(interfaces)
    ELSE IF scan_interface(sw) = 0 THEN 0 ELSE 1

\* The u32 value count - 1, written as its two 16-bit halves <<high, low>>:
\* 0 - 1 is 0xFFFFFFFF.
u32_minus_one(count) ==
    IF count > 0 THEN <<(count - 1) \div 65536, (count - 1) % 65536>>
    ELSE <<65535, 65535>>

\* vl_api_wireshark_bridge_get_stats_t_handler: it reads the registry without
\* the mutex and changes nothing. The reply carries count and the stats
\* array; index is the argument it gave to vec_validate.
GetStats ==
    /\ adm_pc = "idle"
    /\ n_admin < env.admin
    /\ n_admin' = n_admin + 1
    /\ \E sw \in IfIds \cup {ALL_INTERFACES} :
         adm_call' = [Call("get_stats", sw, EP_INET) EXCEPT
                         !.rv = "ok",
                         !.reply = [count |-> stats_count(sw),
                                    index |-> u32_minus_one(stats_count(sw)),
                                    stats |-> stats_reply(sw)]]
    /\ adm_pc' = "ret"
    /\ UNCHANGED <<cfgvars, tvars, sender_thread_running, qvars, osvars, capvars,
                   stvars, wire, next_id, env, codec, appended_disconnected, sender_threads>>

\* The lines wireshark_bridge_stats_command_fn prints: the entry of one
\* interface (nothing when it is not registered) or every entry.
stats_lines(sw) ==
    IF sw = ALL_INTERFACES THEN interfaces
    ELSE IF scan_interface(sw) = 0 THEN <<>>
    ELSE <<interfaces[scan_interface(sw)]>>

\* wireshark_bridge_stats_command_fn: it reads the registry under the mutex
\* and changes nothing.
CliStats ==
    /\ adm_pc = "idle"
    /\ n_admin < env.admin
    /\ n_admin' = n_admin + 1
    /\ \E sw \in IfIds \cup {ALL_INTERFACES} :
         adm_call' = [Call("cli_stats", sw, EP_INET) EXCEPT
                         !.rv = "ok", !.reply = stats_lines(sw)]
    /\ adm_pc' = "ret"
    /\ UNCHANGED <<cfgvars, tvars, sender_thread_running, qvars, osvars, capvars,
                   stvars, wire, next_id, env, codec, appended_disconnected, sender_threads>>

\* The handler or command returns to its caller.
AdminReturn ==
    /\ adm_pc = "ret"
    /\ adm_pc' = "idle"
    /\ adm_call' = NoCall
    /\ UNCHANGED <<cfgvars, tvars, sender_thread_running, qvars, osvars, capvars,
                   stvars, wire, next_id, n_admin, env, codec, appended_disconnected, sender_threads>>

\* ---------------------------------------------------------------- system

Capture ==
    \E p \in Producers :
        \/ CaptureCall(p)
        \/ CaptureCheckConnected(p)
        \/ CaptureFind(p)
        \/ CaptureEnqueue(p)

Sender ==
    \/ SenderWaitDrain
    \/ SenderCheck
    \/ SenderRecord
    \/ SenderFlush
    \/ SenderDisconnect
    \/ SenderAppend

Enable ==
    \/ ApiEnableBegin
    \/ ApiEnableThread
    \/ ApiEnableAddr
    \/ ApiEnableRegister
    \/ CliEnableBegin
    \/ CliEnableSocket
    \/ CliEnableAddr
    \/ CliEnableThread
    \/ CliEnableRegister

Disable ==
    \/ ApiDisableBegin
    \/ ApiDisableJoin
    \/ CliDisable

Next == Capture \/ Sender \/ Enable \/ Disable \/ AdminReturn

\* Every interleaving of capture callers, the sender thread and administrative
\* calls.
Spec == Init /\ [][Next]_vars

\* One enable call and then capture calls while the sender thread, if one was
\* created, is never scheduled: no drain takes place.
InitNoDrain ==
    /\ init_state
    /\ codec = NoCodec
    /\ env = [captures |-> WIRESHARK_BRIDGE_MAX_QUEUE_SIZE + 2, admin |-> 1,
              endpoints |-> {EP_UNIX, EP_INET}]

NextNoDrain == Capture \/ Enable \/ AdminReturn

SpecNoDrain == InitNoDrain /\ [][NextNoDrain]_vars

\* Bounds of the life-cycle specification: capture calls and administrative
\* calls.
LifeCaptures == 2
LifeAdmin == 3

\* The life cycle of the plugin: enable, disable, statistics and shutdown
\* calls, three in a row, around capture calls and the sender thread.
InitLife ==
    /\ init_state
    /\ codec = NoCodec
    /\ env = [captures |-> LifeCaptures, admin |-> LifeAdmin,
              endpoints |-> {EP_UNIX, EP_INET}]

Exit == ExitBegin \/ ExitJoin

NextLife == Next \/ Exit \/ GetStats

SpecLife == InitLife /\ [][NextLife]_vars

\* Bounds of the termination specification.
StopCaptures == 2
StopAdmin == 2

InitStop ==
    /\ init_state
    /\ codec = NoCodec
    /\ env = [captures |-> StopCaptures, admin |-> StopAdmin,
              endpoints |-> {EP_UNIX, EP_INET}]

\* The sender thread is scheduled again and again (a timed wait returns
\* after one second at the latest), and a pthread_join whose thread has
\* exited returns.
SpecStop ==
    /\ InitStop
    /\ [][NextLife]_vars
    /\ WF_vars(Sender)
    /\ WF_vars(ApiDisableJoin)
    /\ WF_vars(ExitJoin)

\* Bounds of the statistics specification.
StatsCaptures == 2
StatsAdmin == 2

InitStats ==
    /\ init_state
    /\ codec = NoCodec
    /\ env = [captures |-> StatsCaptures, admin |-> StatsAdmin,
              endpoints |-> {EP_UNIX, EP_INET}]

\* Every handler and command, the statistics CLI command included.
NextStats == NextLife \/ CliStats

SpecStats == InitStats /\ [][NextStats]_vars

\* ---------------------------------------------------------------- frame format

\* The largest batch given to the encoder on its own.
MaxBatch == 2

\* A payload of n bytes.
payload(n) == [k \in 1..n |-> (7 * k) % 256]

\* Records as wireshark_bridge_send_packet stores them: packet_length is the
\* length of the copied packet_data. The f64 timestamp (seconds) is held as a
\* whole number of microseconds.
CodecRecords ==
    [sw_if_index : {5, 16909060},
     timestamp   : {0, 1999999, 2000123456},
     packet_data : {payload(0), payload(1), payload(300)},
     direction   : {WIRESHARK_BRIDGE_DIRECTION_RX, WIRESHARK_BRIDGE_DIRECTION_TX}]

CodecBatches ==
    UNION {[1..n -> CodecRecords] : n \in 1..MaxBatch}

\* A mutation of be32: the least significant byte is written first.
be32_little_endian(v) ==
    <<v % 256, (v \div 256) % 256, (v \div 65536) % 256, (v \div 16777216) % 256>>

\* Four bytes, most significant first: (v >> 24) & 0xFF ... v & 0xFF.
be32(v) ==
    <<(v \div 16777216) % 256, (v \div 65536) % 256, (v \div 256) % 256, v % 256>>

\* "u32 timestamp_sec = (u32) p->timestamp": the integer part (the timestamps
\* explored are seconds since start, far below 2^32).
timestamp_sec(p) == p.timestamp \div 1000000

\* "(u32) ((p->timestamp - timestamp_sec) * 1000000)": the f64 product is
\* rounded before it is truncated, so the result is the number of whole
\* microseconds of the fraction or, when the product fell just below it, one
\* less.
timestamp_usec(p) ==
    LET us == p.timestamp % 1000000
    IN  {us} \cup (IF us > 0 THEN {us - 1} ELSE {})

\* The bytes written for record p: the 17-byte header, then the payload.
frame(p, usec) ==
    be32(p.sw_if_index) \o be32(timestamp_sec(p)) \o be32(usec)
        \o be32(Len(p.packet_data)) \o <<p.direction>> \o p.packet_data

\* One iteration of the encoder's loop for a record that is written: the
\* frame goes to buffer at buffer_offset. After the last record the buffer is
\* the datagram handed to sendto.
CodecEncode ==
    /\ codec.pc = "encode"
    /\ \E usec \in timestamp_usec(codec.records[codec.i]) :
         codec' = [codec EXCEPT
                      !.buffer = @ \o frame(codec.records[codec.i], usec),
                      !.i      = IF codec.i = Len(codec.records) THEN 0 ELSE @ + 1,
                      !.pc     = IF codec.i = Len(codec.records) THEN "decode" ELSE @]
    /\ UNCHANGED <<cfgvars, tvars, sender_thread_running, qvars, osvars, capvars,
                   stvars, admvars, wire, next_id, n_admin, env, sender_threads,
                   appended_disconnected>>

\* The value of the four bytes after offset o, most significant first.
be32_value(b, o) ==
    ((b[o + 1] * 256 + b[o + 2]) * 256 + b[o + 3]) * 256 + b[o + 4]

\* The frame a receiver reads after offset o: the fixed header, then
\* payload_length bytes.
frame_at(b, o) ==
    [sw_if_index    |-> be32_value(b, o),
     timestamp_sec  |-> be32_value(b, o + 4),
     timestamp_usec |-> be32_value(b, o + 8),
     packet_length  |-> be32_value(b, o + 12),
     direction      |-> b[o + WIRESHARK_BRIDGE_PACKET_HEADER_SIZE],
     packet_data    |-> SubSeq(b, o + WIRESHARK_BRIDGE_PACKET_HEADER_SIZE + 1,
                               o + WIRESHARK_BRIDGE_PACKET_HEADER_SIZE
                                 + be32_value(b, o + 12))]

\* A conforming receiver parses frames one after another until the datagram
\* is exhausted, and fails on a frame that does not fit in what is left.
CodecDecode ==
    /\ codec.pc = "decode"
    /\ LET left == Len(codec.buffer) - codec.i IN
       IF left = 0
       THEN codec' = [codec EXCEPT !.pc = "done"]
       ELSE IF left < WIRESHARK_BRIDGE_PACKET_HEADER_SIZE
               \/ left < WIRESHARK_BRIDGE_PACKET_HEADER_SIZE
                           + be32_value(codec.buffer, codec.i + 12)
       THEN codec' = [codec EXCEPT !.pc = "error"]
       ELSE codec' = [codec EXCEPT
                         !.decoded = Append(@, frame_at(codec.buffer, codec.i)),
                         !.i = @ + WIRESHARK_BRIDGE_PACKET_HEADER_SIZE
                                 + be32_value(codec.buffer, codec.i + 12)]
    /\ UNCHANGED <<cfgvars, tvars, sender_thread_running, qvars, osvars, capvars,
                   stvars, admvars, wire, next_id, n_admin, env, sender_threads,
                   appended_disconnected>>

\* The encoder and a receiver on batches of records, with no other activity.
InitCodec ==
    /\ init_state
    /\ env = [captures |-> 0, admin |-> 0, endpoints |-> {}]
    /\ \E batch \in CodecBatches :
         codec = [pc |-> "encode", records |-> batch, i |-> 1, buffer |-> <<>>,
                  decoded |-> <<>>]

NextCodec == CodecEncode \/ CodecDecode

SpecCodec == InitCodec /\ [][NextCodec]_vars

\* ---------------------------------------------------------------- properties

RECURSIVE frames_of(_)
\* The frames of a sequence of datagrams, in the order they were written.
frames_of(dgrams) ==
    IF dgrams = <<>> THEN <<>>
    ELSE dgrams[1].frames \o frames_of(Tail(dgrams))

\* Records carry their ids in the order of their vec_add1: strictly rising.
in_enqueue_order(recs) ==
    \A i, j \in 1..Len(recs) : i < j => recs[i].id < recs[j].id

EnabledIfs == {i \in 1..Len(interfaces) : interfaces[i].is_enabled # 0}

\* The sender thread is not inside wireshark_bridge_send_packets.
sender_outside_send == st_pc \in {"none", "wait", "check", "exited"}

RECURSIVE sum_lengths(_)
sum_lengths(recs) ==
    IF recs = <<>> THEN 0 ELSE recs[1].packet_length + sum_lengths(Tail(recs))

\* The records of interface sw and direction dir in datagrams whose sendto
\* returned without error.
delivered(sw, dir) ==
    SelectSeq(frames_of(SelectSeq(wire, LAMBDA d : d.ok)),
              LAMBDA r : r.sw_if_index = sw /\ r.direction = dir)

\* The part of the buffer not yet handed to sendto.
unsent_buffer == IF st_pc = "disc" THEN <<>> ELSE st_buffer

\* C1: in every reachable state the capture queue holds at most
\* WIRESHARK_BRIDGE_MAX_QUEUE_SIZE records.
C1_QueueBounded == Len(queue_packets) <= WIRESHARK_BRIDGE_MAX_QUEUE_SIZE

\* The queue is full and a capture call has been rejected for it.
C1_Witness ==
    /\ Len(queue_packets) = WIRESHARK_BRIDGE_MAX_QUEUE_SIZE
    /\ queue_overflows > 0

Min(a, b) == IF a < b THEN a ELSE b
Max(a, b) == IF a > b THEN a ELSE b

\* C2: with no drain taking place, after N capture calls that reached the
\* critical section (N = next_id - 1) on a connected transport and an enabled
\* interface, the queue holds the first min(N, B) records in order and
\* queue_overflows = max(N - B, 0): the last N - B calls were rejected and
\* each call either appended one record or counted one overflow, never both.
C2_ExactOverflow ==
    LET N == next_id - 1
        B == WIRESHARK_BRIDGE_MAX_QUEUE_SIZE
    IN  /\ Len(queue_packets) = Min(N, B)
        /\ \A i \in 1..Len(queue_packets) : queue_packets[i].id = i
        /\ queue_overflows = Max(N - B, 0)

\* N = B + 2 calls were made: B records are queued and 2 were rejected.
C2_Witness ==
    /\ next_id - 1 = WIRESHARK_BRIDGE_MAX_QUEUE_SIZE + 2
    /\ Len(queue_packets) = WIRESHARK_BRIDGE_MAX_QUEUE_SIZE
    /\ queue_overflows = 2
    /\ bridge_connected = 1
    /\ EnabledIfs # {}

\* C3: the records of a drained batch, the frames written to the buffer and
\* the frames of the datagrams handed to sendto are in the order in which the
\* capture calls appended them to the queue, and the buffer holds records of
\* the batch being processed only.
C3_FifoPreserved ==
    /\ in_enqueue_order(queue_packets)
    /\ in_enqueue_order(st_packets)
    /\ in_enqueue_order(frames_of(wire) \o unsent_buffer)
    /\ \A k \in 1..Len(st_buffer) :
          \E i \in 1..Len(st_packets) : i < st_i + 1 /\ st_packets[i] = st_buffer[k]

\* A batch of two records was drained while a capture caller was about to
\* enter the critical section, and its two frames were sent in one datagram.
C3_Witness ==
    /\ \E k \in 1..Len(wire) : Len(wire[k].frames) >= 2
    /\ \E p \in Producers : cap_pc[p] = "lock"

\* C4: no datagram handed to sendto is longer than
\* WIRESHARK_BRIDGE_MAX_DATAGRAM_SIZE and the write offset into the batch
\* buffer never exceeds that size.
C4_DatagramBound ==
    /\ st_offset <= WIRESHARK_BRIDGE_MAX_DATAGRAM_SIZE
    /\ \A k \in 1..Len(wire) : wire[k].length <= WIRESHARK_BRIDGE_MAX_DATAGRAM_SIZE

\* C5: whenever the sender thread is outside wireshark_bridge_send_packets,
\* the packet and byte counters of every interface equal the number and the
\* total payload length of its records in datagrams whose sendto succeeded
\* (and the counters never decrease).
C5_CountersMatchDelivered ==
    sender_outside_send =>
        \A i \in 1..Len(interfaces) :
            LET e  == interfaces[i]
                rx == delivered(e.sw_if_index, WIRESHARK_BRIDGE_DIRECTION_RX)
                tx == delivered(e.sw_if_index, WIRESHARK_BRIDGE_DIRECTION_TX)
            IN  /\ e.packets_sent_rx = Len(rx)
                /\ e.bytes_sent_rx = sum_lengths(rx)
                /\ e.packets_sent_tx = Len(tx)
                /\ e.bytes_sent_tx = sum_lengths(tx)

\* C6: queue_overflows never decreases, whatever the sequence of operations.
C6_OverflowMonotonic == [][queue_overflows' >= queue_overflows]_vars

C8_EnableStartsSender ==
    (adm_pc = "ret" /\ adm_call.op \in {"api_enable", "cli_enable"} /\ adm_call.rv = "ok")
        => (sender_thread_running = 1 /\ st_pc \notin {"none", "exited"})

\* The record captured in scenario A.
scenario_record ==
    [sw_if_index |-> 5, packet_length |-> 64,
     direction |-> WIRESHARK_BRIDGE_DIRECTION_RX, id |-> 1]

\* Scenario A has run and nothing more can happen: one enable call, of
\* interface 5 with 127.0.0.1:9999, returned success; one capture call, of an
\* RX packet of 64 bytes, entered the critical section and returned; no sendto
\* failed; and the sender thread has no step left to take.
scenario_a_done ==
    /\ n_admin = 1 /\ adm_pc = "idle"
    /\ Len(interfaces) = 1
    /\ interfaces[1].sw_if_index = 5 /\ interfaces[1].is_enabled = 1
    /\ bridge_addr = [family |-> "inet", ep |-> EP_INET.name]
    /\ next_id = 2 /\ \A p \in Producers : cap_pc[p] = "idle"
    /\ queue_overflows = 0
    /\ \A k \in 1..Len(wire) : wire[k].ok
    /\ \A k \in 1..Len(queue_packets \o st_packets \o frames_of(wire)) :
          (queue_packets \o st_packets \o frames_of(wire))[k] = scenario_record
    /\ st_pc \in {"none", "wait"}
    /\ ~(st_pc = "wait" /\ (Len(queue_packets) # 0 \/ should_stop # 0))

\* C9: once scenario A has run to the end, whichever entry point enabled the
\* interface, exactly one datagram of 17 + 64 bytes carrying the record has
\* been sent and the interface's counters read rx_packets = 1, rx_bytes = 64.
C9_ScenarioA ==
    scenario_a_done =>
        /\ Len(wire) = 1
        /\ wire[1].length = WIRESHARK_BRIDGE_PACKET_HEADER_SIZE + 64
        /\ wire[1].frames = <<scenario_record>>
        /\ interfaces[1].packets_sent_rx = 1
        /\ interfaces[1].bytes_sent_rx = 64

\* C10: when a disable call of a registered interface returns and no
\* interface remains enabled, the sender thread has been stopped and joined
\* and the transport torn down.
C10_DisableTearsDown ==
    (adm_pc = "ret" /\ adm_call.op \in {"api_disable", "cli_disable"}
        /\ adm_call.rv = "ok" /\ scan_interface(adm_call.sw_if_index) # 0
        /\ all_disabled(interfaces))
        => /\ sender_thread_running = 0
           /\ st_pc = "none"
           /\ bridge_connected = 0
           /\ ~IsOpen(bridge_socket)

\* C11: at most one sender thread exists at any time: pthread_create is
\* never executed while a sender thread created earlier has not been joined,
\* and a thread exists exactly while sender_thread_running is set.
C11_OneSenderThread ==
    /\ sender_threads <= 1
    /\ (sender_threads = 0) <=> (st_pc = "none")
    /\ (sender_threads = 0) <=> (sender_thread_running = 0)

\* An enable call reaches "Start sender thread if not already running" while
\* the thread created by an earlier enable is alive and a send has failed.
C11_Witness ==
    /\ adm_pc \in {"ae_thread", "ce_thread"}
    /\ sender_threads = 1
    /\ \E k \in 1..Len(wire) : ~wire[k].ok

\* The kind of socket and address an endpoint calls for.
kind_of(ep) == IF ep.is_path THEN "unix" ELSE "inet"

\* C12: when an enable call with endpoint E returns success, the transport
\* is configured for E: the address stored is E's, use_unix_socket says E's
\* kind, and the socket, if open, is of E's kind.
C12_EnableReconfigures ==
    (adm_pc = "ret" /\ adm_call.op \in {"api_enable", "cli_enable"} /\ adm_call.rv = "ok")
        => /\ bridge_addr = [family |-> kind_of(adm_call.ep), ep |-> adm_call.ep.name]
           /\ use_unix_socket = (IF adm_call.ep.is_path THEN 1 ELSE 0)
           /\ \A o \in open_fds : o.fd = bridge_socket => o.family = kind_of(adm_call.ep)

\* C13: every step of a disable call (API handler or CLI command) made on an
\* interface that is registered and already disabled leaves the registry
\* entries, counters and enabled flags, as they are, and the call returns
\* success.
C13_DisableIdempotent ==
    [][(/\ adm_call'.op \in {"api_disable", "cli_disable"}
        /\ adm_call'.prior = 0
        /\ adm_pc' # adm_pc
        /\ adm_pc' # "idle")
       => /\ interfaces' = interfaces
          /\ adm_pc' = "ret" => adm_call'.rv = "ok"]_vars

\* A disable call has returned for an interface that was already disabled
\* when the call was made and whose counters are not zero.
C13_Witness ==
    /\ adm_pc = "ret"
    /\ adm_call.op \in {"api_disable", "cli_disable"}
    /\ adm_call.prior = 0
    /\ adm_call.rv = "ok"
    /\ \E i \in 1..Len(interfaces) :
          /\ interfaces[i].sw_if_index = adm_call.sw_if_index
          /\ interfaces[i].packets_sent_rx + interfaces[i].packets_sent_tx > 0

\* C14: an enable call that returns a configuration error has left the
\* dispatcher as it was: a step of the administrative context that returns
\* invalid_value from an enable call changes neither the transport (socket,
\* address, bridge_connected, use_unix_socket, socket_path), nor the open
\* descriptors, nor the registry, nor the sender thread.
C14_ConfigErrorNoMutation ==
    [][(/\ adm_pc = "idle"
        /\ adm_pc' = "ret"
        /\ adm_call'.op \in {"api_enable", "cli_enable"}
        /\ adm_call'.rv = "invalid_value")
       => UNCHANGED <<tvars, cfgvars, open_fds, sender_thread_running, st_pc>>]_vars

\* The endpoints that are malformed, have a port out of range or a path too
\* long.
BadEndpoints == {EP_LONG, EP_NOCOLON, EP_BADPORT}

\* C15: an enable call (API handler or CLI command) with an endpoint that has
\* no ':' and is not a path, a port outside 1..65535 or a Unix path of 108 or
\* more characters returns failure in its first step, starts no sender
\* thread, adds no interface to the registry and sets no enabled flag.
C15_BadEndpointRejected ==
    [][(/\ adm_pc = "idle"
        /\ adm_pc' # "idle"
        /\ adm_call'.op \in {"api_enable", "cli_enable"}
        /\ adm_call'.ep \in BadEndpoints)
       => /\ adm_pc' = "ret"
          /\ adm_call'.rv = "invalid_value"
          /\ UNCHANGED <<cfgvars, sender_thread_running, sender_threads, st_pc>>]_vars

\* An enable call with such an endpoint has returned failure while no sender
\* thread runs and the interface it names is not registered.
C15_Witness ==
    /\ adm_pc = "ret"
    /\ adm_call.op \in {"api_enable", "cli_enable"}
    /\ adm_call.ep \in BadEndpoints
    /\ adm_call.rv = "invalid_value"
    /\ sender_thread_running = 0
    /\ find_interface(adm_call.sw_if_index) = 0

\* C16: when an enable call returns because socket() or pthread_create
\* failed, nothing it created remains: bridge_connected = 0, bridge_socket
\* is not an open descriptor, no sender thread was started and the enabled
\* flag of the interface is as it was when the call was made.
C16_FailedEnableRolledBack ==
    (/\ adm_pc = "ret"
     /\ adm_call.op \in {"api_enable", "cli_enable"}
     /\ adm_call.rv \in {"syscall_error_1", "syscall_error_3"})
    => /\ bridge_connected = 0
       /\ ~IsOpen(bridge_socket)
       /\ enabled_flag(adm_call.sw_if_index) = adm_call.prior

\* C17: a sendto call that fails closes the socket and is followed by
\* bridge_connected = 0; no sendto is called while bridge_connected = 0, in
\* the rest of the batch or in a later drain; and no record of a datagram
\* handed to sendto, sent or failed, is handed to sendto again.
C17_NoRetryAfterFailure ==
    [][/\ (Len(wire') > Len(wire) /\ ~wire'[Len(wire')].ok)
          => /\ st_pc' = "disc"
             /\ ~(\E o \in open_fds' : o.fd = bridge_socket)
       /\ (st_pc = "disc" /\ st_pc' # "disc") => bridge_connected' = 0
       /\ Len(wire') > Len(wire)
          => /\ bridge_connected # 0
             /\ \A k \in 1..Len(wire'[Len(wire')].frames) :
                   \A j \in 1..Len(frames_of(wire)) :
                       frames_of(wire)[j] # wire'[Len(wire')].frames[k]]_vars

\* A sendto of the batch being processed has failed, bridge_connected is 0,
\* and the loop has written a later record of the batch to the buffer and
\* reached "Send any remaining data".
C17_Witness ==
    /\ st_pc = "flush" /\ st_ret = "free" /\ st_offset > 0
    /\ bridge_connected = 0
    /\ wire # <<>>
    /\ ~wire[Len(wire)].ok
    /\ \E i \in 1..Len(st_packets) : st_packets[i] = wire[Len(wire)].frames[1]

\* C18: bridge_connected goes from 0 to 1 only in a step of an enable call
\* (API handler or CLI command): no step of the sender thread, of a capture
\* call, of disable, of get_stats or of exit sets it.
C18_ConnectOnlyByEnable ==
    [][(bridge_connected = 0 /\ bridge_connected' # 0)
       => /\ adm_call'.op \in {"api_enable", "cli_enable"}
          /\ adm_pc' # adm_pc
          /\ UNCHANGED <<capvars, stvars>>]_vars

\* A send failed, the sender thread cleared bridge_connected, and the
\* transport is connected again.
C18_Witness ==
    /\ \E k \in 1..Len(wire) : ~wire[k].ok
    /\ st_pc # "disc"
    /\ bridge_connected = 1

\* C19: a step of the API disable handler or of wireshark_bridge_exit that
\* closes the socket or frees the registry is taken only when the sender
\* thread does not exist or has exited, and leaves no sender thread behind.
C19_JoinBeforeTeardown ==
    [][(/\ adm_pc' # adm_pc
        /\ adm_call'.op \in {"api_disable", "exit"}
        /\ (open_fds' # open_fds \/ adm_pc' = "down"))
       => /\ st_pc \in {"none", "exited"}
          /\ sender_threads' = 0]_vars

\* A teardown has completed after the sender thread was asked to stop and
\* was joined.
C19_Witness ==
    /\ adm_pc \in {"ret", "down"}
    /\ adm_call.op \in {"api_disable", "exit"}
    /\ should_stop = 1
    /\ st_pc = "none"
    /\ ~IsOpen(bridge_socket)

\* C20: once should_stop is set the sender thread terminates and the
\* pthread_join of the disable handler or of wireshark_bridge_exit returns;
\* the thread leaves only from the head of its loop, after the batch it had
\* drained was processed, and takes no batch from the queue once the flag is
\* set.
C20_StopTerminates ==
    /\ (should_stop = 1 /\ st_pc # "none") ~> (st_pc \in {"exited", "none"})
    /\ (adm_pc \in {"ad_join", "ex_join"}) ~> (adm_pc \in {"ret", "down"})
    /\ [][/\ (st_pc' = "exited" /\ st_pc # "exited") => st_pc = "wait"
          /\ (st_pc = "wait" /\ st_pc' # "wait" /\ should_stop # 0)
             => (st_pc' = "exited" /\ UNCHANGED <<queue_packets, st_packets>>)]_vars

\* The stop flag was set while the thread was inside
\* wireshark_bridge_send_packets with records left in the queue.
C20_Witness ==
    /\ should_stop = 1
    /\ st_pc \in {"rec", "flush", "disc", "append"}
    /\ adm_pc \in {"ad_join", "ex_join"}
    /\ Len(queue_packets) > 0

\* ---------------------------------------------------------------- C21..C30

\* C21: no record appended to the queue while the transport was disconnected
\* is ever placed in a datagram that is sent afterwards (which, the connection
\* being made only by enable, is after a later reconfigure).
C21_NoStaleRecordSent ==
    \A k \in 1..Len(wire) :
        wire[k].ok =>
            \A j \in 1..Len(wire[k].frames) :
                wire[k].frames[j].id \notin appended_disconnected

\* C22: a capture call for an interface that is not registered or whose
\* enabled flag is 0 returns from the lookup as a no-op: the queue, the
\* overflow counter, the registry and every counter are unchanged, and it does
\* not go on to the mutex; only a call whose interface is registered and
\* enabled at the lookup reaches the critical section.
C22_UncapturedIsNoOp ==
    [][\A p \in Producers :
          (cap_pc[p] = "find" /\ cap_pc'[p] # "find") =>
              IF cap_pc'[p] = "lock"
              THEN /\ find_interface(cap_sw'[p]) # 0
                   /\ interfaces[find_interface(cap_sw'[p])].is_enabled # 0
              ELSE /\ cap_pc'[p] = "idle"
                   /\ UNCHANGED <<qvars, cfgvars, next_id, appended_disconnected>>]_vars

\* A call is at the lookup, connected, with one interface registered but
\* disabled and another not registered at all.
C22_Witness ==
    /\ bridge_connected = 1
    /\ \E p \in Producers : cap_pc[p] = "find"
    /\ \E sw \in IfIds : find_interface(sw) # 0 /\ interfaces[find_interface(sw)].is_enabled = 0
    /\ \E sw \in IfIds : find_interface(sw) = 0

\* C23: when the encoder reaches a record whose interface is not registered or
\* is disabled at that moment, the record is skipped: the datagram buffer and
\* its offset are unchanged, nothing is sent, no counter of any interface
\* changes, and the loop moves to the next record.
C23_DisabledRecordSkipped ==
    [][(/\ st_pc = "rec"
        /\ (st_i' # st_i \/ st_pc' # st_pc)
        /\ LET wbi == find_interface(st_packets[st_i].sw_if_index)
           IN  wbi = 0 \/ interfaces[wbi].is_enabled = 0)
       => /\ st_i' = st_i + 1
          /\ UNCHANGED <<st_buffer, st_offset, wire, cfgvars>>]_vars

\* The encoder has passed a record of the batch whose interface is disabled,
\* and the record is in no datagram and not in the buffer.
C23_Witness ==
    /\ st_pc \in {"rec", "flush"}
    /\ st_i >= 2
    /\ LET q   == st_packets[st_i - 1]
           wbi == find_interface(q.sw_if_index)
       IN  /\ wbi # 0
           /\ interfaces[wbi].is_enabled = 0
           /\ \A j \in 1..Len(st_buffer) : st_buffer[j].id # q.id
           /\ \A j \in 1..Len(frames_of(wire)) : frames_of(wire)[j].id # q.id

\* C24: a record whose 17-byte header plus payload exceeds the maximum
\* datagram size is dropped by the encoder: it is in no datagram and not in
\* the buffer being filled.
C24_OversizeDropped ==
    \A j \in 1..Len(frames_of(wire) \o unsent_buffer) :
        LET p == (frames_of(wire) \o unsent_buffer)[j]
        IN  WIRESHARK_BRIDGE_PACKET_HEADER_SIZE + p.packet_length
                <= WIRESHARK_BRIDGE_MAX_DATAGRAM_SIZE

RECURSIVE frames_length(_)
\* The bytes that frames of 17 + payload length take.
frames_length(recs) ==
    IF recs = <<>> THEN 0
    ELSE WIRESHARK_BRIDGE_PACKET_HEADER_SIZE + Len(Head(recs).packet_data)
             + frames_length(Tail(recs))

\* C25: the datagram written for a batch is the concatenation, with nothing
\* before, between or after, of one frame of exactly 17 + payload length bytes
\* per record, and a receiver that reads frames one after another recovers
\* for each record its interface id, payload length, direction and payload
\* bytes, with seconds equal to the integer part of the timestamp, and
\* consumes the datagram exactly.
C25_FramesRoundTrip ==
    /\ codec.pc # "error"
    /\ codec.pc = "encode" =>
           Len(codec.buffer) = frames_length(SubSeq(codec.records, 1, codec.i - 1))
    /\ codec.pc \in {"decode", "done"} =>
           Len(codec.buffer) = frames_length(codec.records)
    /\ codec.pc = "done" => Len(codec.decoded) = Len(codec.records)
    /\ \A k \in 1..Len(codec.decoded) :
           /\ k <= Len(codec.records)
           /\ codec.decoded[k].sw_if_index = codec.records[k].sw_if_index
           /\ codec.decoded[k].packet_length = Len(codec.records[k].packet_data)
           /\ codec.decoded[k].direction = codec.records[k].direction
           /\ codec.decoded[k].packet_data = codec.records[k].packet_data
           /\ codec.decoded[k].timestamp_sec = codec.records[k].timestamp \div 1000000

\* A datagram of two frames, one with a 300-byte payload, was read to its end.
C25_Witness ==
    /\ codec.pc = "done"
    /\ Len(codec.decoded) = 2
    /\ codec.decoded[1].packet_length = 300
    /\ codec.decoded[1].timestamp_sec = 2000
    /\ codec.decoded[2].sw_if_index = 16909060
    /\ codec.decoded[2].direction = WIRESHARK_BRIDGE_DIRECTION_TX

\* The ids of the records of a sequence.
ids_of(recs) == {recs[j].id : j \in 1..Len(recs)}

\* C26: a drain takes every record queued at that instant in one step and
\* leaves the queue empty; no step of the sender thread or of a capture call
\* loses a queued record (each stays queued or is in the batch drained); and
\* a record that was drained is not in the queue again, so it is in one batch
\* only and out of the producers' reach.
C26_DrainTakesAllOnce ==
    [][/\ (st_pc = "wait" /\ st_pc' = "check") =>
              /\ queue_packets # <<>>
              /\ st_packets' = queue_packets
              /\ queue_packets' = <<>>
       /\ adm_pc' = adm_pc =>
              ids_of(queue_packets) \subseteq ids_of(queue_packets') \cup ids_of(st_packets')
       /\ ids_of(queue_packets') \cap
              (ids_of(st_packets') \cup ids_of(frames_of(wire'))) = {}
       /\ Cardinality(ids_of(queue_packets' \o st_packets'))
              = Len(queue_packets') + Len(st_packets')]_vars

\* A batch of two records was just drained while a capture call waits for the
\* mutex.
C26_Witness ==
    /\ st_pc = "check"
    /\ Len(st_packets) = 2
    /\ queue_packets = <<>>
    /\ \E p \in Producers : cap_pc[p] = "lock"

\* The steps made between pthread_mutex_lock and pthread_mutex_unlock of
\* sender_mutex: the sender's wait and drain, the critical section of a
\* capture call, and the CLI disable command's scan.
under_sender_mutex ==
    \/ st_pc = "wait" /\ st_pc' # "wait"
    \/ \E p \in Producers : cap_pc[p] = "lock" /\ cap_pc'[p] = "idle"
    \/ adm_pc = "idle" /\ adm_pc' = "ret" /\ adm_call'.op = "cli_disable"

\* C27: the socket handle, the connection flag, use_unix_socket and the peer
\* address are written only in steps made while holding sender_mutex, and
\* never while a capture call is at its read of bridge_connected.
C27_TransportUnderMutex ==
    [][tvars' # tvars =>
          /\ under_sender_mutex
          /\ \A p \in Producers : cap_pc[p] # "conn"]_vars

\* C28: the four counters of every registered interface are changed only by
\* the sender thread: every step that is not a step of the sender thread
\* (a capture call, an enable, a disable, get_stats, the stats command) keeps
\* each entry in its place with its counters unchanged. The shutdown, which
\* frees the registry, is left aside.
C28_CountersSingleWriter ==
    [][(/\ st_pc' = st_pc
        /\ st_i' = st_i
        /\ ~(adm_pc' # adm_pc /\ adm_call'.op = "exit"))
       => /\ Len(interfaces') >= Len(interfaces)
          /\ \A i \in 1..Len(interfaces) :
                stats_of(interfaces'[i]) = stats_of(interfaces[i])]_vars

\* The stats command has just printed the entry of an interface that has
\* counted a packet.
C28_Witness ==
    /\ adm_pc = "ret"
    /\ adm_call.op = "cli_stats"
    /\ \E i \in 1..Len(interfaces) :
          /\ interfaces[i].packets_sent_rx + interfaces[i].packets_sent_tx > 0
          /\ adm_call.reply = <<interfaces[i]>>

\* C29: the registry holds at most one entry per interface id and the hash
\* index of every registered id points at the entry carrying that id; and
\* wireshark_bridge_add_interface, applied in any state reached, returns the
\* registry unchanged for an id that is registered, and otherwise appends one
\* entry with enabled = 0 and all counters 0 and indexes it.
C29_AddInterfaceIdempotent ==
    /\ \A i, j \in 1..Len(interfaces) :
           i # j => interfaces[i].sw_if_index # interfaces[j].sw_if_index
    /\ \A sw \in DOMAIN interface_index_by_sw_if_index :
           /\ interface_index_by_sw_if_index[sw] \in 1..Len(interfaces)
           /\ interfaces[interface_index_by_sw_if_index[sw]].sw_if_index = sw
    /\ \A i \in 1..Len(interfaces) :
           interfaces[i].sw_if_index \in DOMAIN interface_index_by_sw_if_index
    /\ \A sw \in IfIds :
           IF find_interface(sw) # 0
           THEN /\ add_interface_vec(sw) = interfaces
                /\ add_interface_hash(sw) = interface_index_by_sw_if_index
           ELSE /\ add_interface_vec(sw) =
                      Append(interfaces,
                             [sw_if_index |-> sw, is_enabled |-> 0,
                              packets_sent_rx |-> 0, bytes_sent_rx |-> 0,
                              packets_sent_tx |-> 0, bytes_sent_tx |-> 0])
                /\ add_interface_hash(sw)[sw] = Len(interfaces) + 1
                /\ \A s \in DOMAIN interface_index_by_sw_if_index :
                      add_interface_hash(sw)[s] = interface_index_by_sw_if_index[s]

\* An enable for an interface that was already registered has succeeded, and
\* its single entry still carries the packets it had counted.
C29_Witness ==
    /\ adm_pc = "ret"
    /\ adm_call.op \in {"api_enable", "cli_enable"}
    /\ adm_call.rv = "ok"
    /\ adm_call.prior # -1
    /\ Len(interfaces) = 1
    /\ interfaces[1].sw_if_index = adm_call.sw_if_index
    /\ interfaces[1].packets_sent_rx + interfaces[1].packets_sent_tx > 0

\* C30: each socket opened by enable is closed at most once: close() is never
\* called on a descriptor that is not open.
C30_NoDoubleClose == ~bad_close

\* ---------------------------------------------------------------- C31..C34

\* C31: in every reachable state bridge_connected = 1 implies that
\* bridge_socket is an open descriptor and that the peer address is filled,
\* and the sender thread is never at a sendto call with a descriptor that is
\* not open.
C31_ConnectedImpliesOpen ==
    /\ bridge_connected = 1 =>
           /\ IsOpen(bridge_socket)
           /\ bridge_addr.family # "none"
           /\ bridge_addr.ep # "unset"
    /\ ~(st_pc = "flush" /\ may_send /\ ~IsOpen(bridge_socket))

\* C32: between administrative calls, whenever the transport is connected,
\* use_unix_socket says the kind of the open socket and of the peer address
\* stored: 1 with an AF_UNIX socket and unix_addr filled, 0 with an AF_INET
\* socket and inet_addr filled.
C32_KindAgrees ==
    (adm_pc = "idle" /\ bridge_connected = 1) =>
        LET kind == IF use_unix_socket # 0 THEN "unix" ELSE "inet"
        IN  /\ bridge_addr.family = kind
            /\ \A o \in open_fds : o.fd = bridge_socket => o.family = kind

\* C33: no step drops the only reference to a record without freeing it:
\* every record that is in the queue or in the batch held by the sender
\* thread is still in one of them after the step, unless the step is the
\* sender thread freeing its batch.
C33_NoRecordLeaked ==
    [][\A id \in ids_of(queue_packets) \cup ids_of(st_packets) :
          \/ id \in ids_of(queue_packets') \cup ids_of(st_packets')
          \/ /\ id \in ids_of(st_packets)
             /\ st_pc \in {"check", "flush", "disc"}
             /\ st_pc' = "wait"]_vars

\* C34: a get_stats call that finds no interface (an id that is not
\* registered, or all interfaces of an empty registry) replies with count 0
\* and no entries, and the u32 index count - 1 it sizes the stats vector
\* with is not 0xFFFFFFFF.
C34_StatsIndexNoWrap ==
    (/\ adm_pc = "ret"
     /\ adm_call.op = "get_stats"
     /\ stats_reply(adm_call.sw_if_index) = <<>>)
        => /\ adm_call.reply.count = 0
           /\ adm_call.reply.stats = <<>>
           /\ adm_call.reply.index # <<65535, 65535>>

====
